---- MODULE Spec2Model ----
(***************************************************************************)
(* Model of openrouter_ai_chat.py: the OpenRouterChat session (transcript  *)
(* self.messages and self.model), the streaming request                    *)
(* _send_message_to_ai, the interactive loop interactive_chat and the      *)
(* one-shot handle_piped_input.                                            *)
(*                                                                         *)
(* Text is a sequence of one-character strings, so that lower(), strip(),  *)
(* startswith(), slicing and += are computed as Python computes them.      *)
(***************************************************************************)
EXTENDS Integers, Sequences, FiniteSets, TLC

VARIABLES
    messages,   \* self.messages: the persistent transcript
    model,      \* self.model
    mode,       \* "none" | "interactive" | "piped": the branch __main__ took
    pc,         \* position of the control flow (see the actions)
    request,    \* the payload of the requests.post in flight / last issued
    status,     \* response.status_code of the current request, 0 = none yet
    body,       \* the response body: "none" | "open" | "eof" (iter_lines() is
                \* exhausted) | "broken" (iter_lines() raised)
    seen,       \* the lines response.iter_lines() has delivered in this request
    full_assistant_response,  \* the accumulator of _send_message_to_ai
    echo,       \* what this request wrote to sys.stdout
    ret,        \* the value _send_message_to_ai returned
    failure,    \* why the current request returned None ("" = it did not)
    pre,        \* history: self.messages when the current line was typed
    succ,       \* history: number of turns that committed an assistant message
    exitcode,   \* process exit status, -1 while running
    how,        \* history: what ended the process ("" while running)
    lastswitch, \* history, at the prompt: the model command typed last, whether
                \* it was typed twice in a row and the model before the second
    switched    \* history: the last model command typed in the session (empty:
                \* none was typed)

vars == << messages, model, mode, pc, request, status, body, seen,
           full_assistant_response, echo, ret, failure, pre, succ,
           exitcode, how, lastswitch, switched >>

----------------------------------------------------------------------------
(* Bounds of the model *)

\* turns committed in one session: no turn is submitted after that many
MaxTurns == 2
\* lines of one response body before its terminating frame
MaxLines == 2

----------------------------------------------------------------------------
(* Text *)

EmptyText == << >>

\* str.lower() on the letters the inputs use
LowerChar(c) ==
    CASE c = "E" -> "e" [] c = "X" -> "x" [] c = "I" -> "i" [] c = "T" -> "t"
      [] c = "Q" -> "q" [] c = "U" -> "u" [] c = "M" -> "m" [] c = "O" -> "o"
      [] c = "D" -> "d" [] c = "L" -> "l" [] OTHER -> c

Lower(s) == [i \in 1..Len(s) |-> LowerChar(s[i])]

IsSpace(c) == c \in {" ", "\t"}

RECURSIVE LStrip(_)
LStrip(s) == IF s # << >> /\ IsSpace(Head(s)) THEN LStrip(Tail(s)) ELSE s

RECURSIVE RStrip(_)
RStrip(s) ==
    IF s # << >> /\ IsSpace(s[Len(s)]) THEN RStrip(SubSeq(s, 1, Len(s) - 1)) ELSE s

\* str.strip()
Strip(s) == RStrip(LStrip(s))

\* str.startswith(p)
StartsWith(s, p) == Len(s) >= Len(p) /\ SubSeq(s, 1, Len(p)) = p

\* s[n:]
SliceFrom(s, n) == SubSeq(s, n + 1, Len(s))

----------------------------------------------------------------------------
(* Program constants *)

\* an opaque text: no operation looks inside the default model name
DEFAULT_MODEL == << "deepseek/deepseek-chat" >>

\* the content of the system message of __init__ (an opaque text)
SystemContent == << "SYSTEM_PROMPT" >>

\* the fixed instruction of handle_piped_input (an opaque text)
SummarizeInstruction == << "SUMMARIZE_INSTRUCTION" >>

Message(role, content) == [role |-> role, content |-> content]

\* self.messages as __init__ builds it
InitialMessages == << Message("system", SystemContent) >>

\* _send_message_to_ai returns None or a str
None == [isNone |-> TRUE, text |-> EmptyText]
Str(t) == [isNone |-> FALSE, text |-> t]

\* the test written "is not None": "" passes it
NotNone(r) == ~r.isNone

\* Python truthiness of the returned value: None and "" are falsy
Truthy(r) == ~r.isNone /\ r.text # EmptyText

----------------------------------------------------------------------------
(* Lines of a 200 response body, as response.iter_lines() delivers them.    *)
(* raw:     "blank"  an empty line                                          *)
(*          "bytes"  a non-empty line that line.decode("utf-8") rejects     *)
(*          "nodata" a non-empty line that does not start with "data: "     *)
(*          "data"   a line that starts with "data: "                       *)
(* payload: what follows the prefix, stripped: "done" is [DONE], "badjson"  *)
(*          makes json.loads raise JSONDecodeError, "json" parses to chunk  *)
(* ctype, choices, delta, content, text, finish, error: the parsed chunk    *)

Line(raw, payload, ctype, choices, delta, content, text, finish, error) ==
    [raw |-> raw, payload |-> payload, ctype |-> ctype, choices |-> choices,
     delta |-> delta, content |-> content, text |-> text, finish |-> finish,
     error |-> error]

BlankLine == Line("blank", "-", "-", "absent", "absent", "absent", EmptyText, "absent", "absent")
\* e.g. ": keep-alive" or "event: message"
NoDataLine == Line("nodata", "-", "-", "absent", "absent", "absent", EmptyText, "absent", "absent")
\* data: [DONE]
DoneLine == Line("data", "done", "-", "absent", "absent", "absent", EmptyText, "absent", "absent")
\* data: {"choices": [{"de
BadJsonLine == Line("data", "badjson", "-", "absent", "absent", "absent", EmptyText, "absent", "absent")
\* data: {"choices":[{"delta":{"content": t}}]}
ContentLine(t) == Line("data", "json", "object", "one", "object", "str", t, "absent", "absent")
\* data: {"choices":[{"delta":{},"finish_reason":"stop"}]}
FinishLine == Line("data", "json", "object", "one", "object", "absent", EmptyText, "set", "absent")
\* data: {"error":{"message":"boom"}}
ErrorLine == Line("data", "json", "object", "absent", "absent", "absent", EmptyText, "absent", "object")
\* data: {"error":{"message":"boom"},
\*        "choices":[{"delta":{"content": t},"finish_reason":"error"}]}
ErrorWithChoicesLine(t) ==
    Line("data", "json", "object", "one", "object", "str", t, "set", "object")

\* b"\xff"
UndecodableLine == Line("bytes", "-", "-", "absent", "absent", "absent", EmptyText, "absent", "absent")
\* data: 5
NumberLine == Line("data", "json", "number", "absent", "absent", "absent", EmptyText, "absent", "absent")
\* data: []
ListLine == Line("data", "json", "list", "absent", "absent", "absent", EmptyText, "absent", "absent")
\* data: {"choices":[{"delta":null}]}
NullDeltaLine == Line("data", "json", "object", "one", "null", "absent", EmptyText, "absent", "absent")
\* data: {"choices":[{"delta":{"content":null}}]}
NullContentLine == Line("data", "json", "object", "one", "object", "null", EmptyText, "absent", "absent")
\* data: {"choices":[]}
EmptyChoicesLine == Line("data", "json", "object", "empty", "absent", "absent", EmptyText, "absent", "absent")
\* data: {"error":"boom"}
ErrorStringLine == Line("data", "json", "object", "absent", "absent", "absent", EmptyText, "absent", "string")

\* the fragments a content frame can carry
Fragments == { EmptyText, << "A" >>, << "B" >> }

\* the lines explored in the responses to the turns of a session: the frames
\* that decide what is committed
StreamLines ==
    { DoneLine, ErrorLine, ErrorWithChoicesLine(EmptyText) }
      \cup { ContentLine(t) : t \in Fragments }

\* the lines explored in the response to the one-shot request: also the lines
\* that are skipped and the frames of unexpected structure
PipedStreamLines ==
    StreamLines
      \cup { BlankLine, NoDataLine, BadJsonLine, FinishLine, EmptyChoicesLine,
             ListLine, NumberLine, NullDeltaLine, NullContentLine, ErrorStringLine,
             UndecodableLine }

\* the outcome of one pass through the body of the for loop
Step(ctl, acc, out, why) == [ctl |-> ctl, acc |-> acc, out |-> out, why |-> why]

\* the branches under "choices", the fragment put in front of the accumulator
ChoiceStepPrepend(line, acc) ==
    IF line.delta = "object" /\ line.content = "str"
    THEN Step("continue", line.text \o acc, line.text, "")
    ELSE Step("continue", acc, EmptyText, "")

\* the branches under "choices" in chunk and len(chunk["choices"]) > 0
ChoiceStep(line, acc) ==
    IF line.delta = "null"
    THEN Step("raise", acc, EmptyText, "exception")         \* "content" in None
    ELSE IF line.delta = "object" /\ line.content # "absent"
    THEN IF line.content = "str"
         THEN Step("continue", acc \o line.text, line.text, "")
         ELSE Step("raise", acc, EmptyText, "exception")    \* sys.stdout.write(None)
    ELSE Step("continue", acc, EmptyText, "")               \* finish_reason or nothing

\* the try block around json.loads, for a payload that parsed
ChunkStep(line, acc) ==
    IF line.ctype \in {"number", "null"}
    THEN Step("raise", acc, EmptyText, "exception")         \* "choices" in 5
    ELSE IF line.ctype = "list"
    THEN Step("continue", acc, EmptyText, "")
    ELSE IF line.choices = "null"
    THEN Step("raise", acc, EmptyText, "exception")         \* len(None)
    ELSE IF line.choices = "one"
    THEN ChoiceStep(line, acc)
    ELSE IF line.error # "absent"
    THEN IF line.error = "object"
         THEN Step("return_none", acc, EmptyText, "servererror")
         ELSE Step("raise", acc, EmptyText, "exception")    \* "boom".get
    ELSE Step("continue", acc, EmptyText, "")

\* one iteration with an unparsable payload left to the except clauses of the
\* function: the JSONDecodeError ends the request
LineStepStrict(line, acc) ==
    IF line.raw = "blank" THEN Step("continue", acc, EmptyText, "")
    ELSE IF line.raw = "bytes" THEN Step("raise", acc, EmptyText, "exception")
    ELSE IF line.raw # "data" THEN Step("continue", acc, EmptyText, "")
    ELSE IF line.payload = "done" THEN Step("break", acc, EmptyText, "")
    ELSE IF line.payload = "badjson" THEN Step("raise", acc, EmptyText, "exception")
    ELSE ChunkStep(line, acc)

\* one iteration with [DONE] skipped like an unparsable payload
LineStepDoneSkipped(line, acc) ==
    IF line.raw = "blank" THEN Step("continue", acc, EmptyText, "")
    ELSE IF line.raw = "bytes" THEN Step("raise", acc, EmptyText, "exception")
    ELSE IF line.raw # "data" THEN Step("continue", acc, EmptyText, "")
    ELSE IF line.payload \in { "done", "badjson" } THEN Step("continue", acc, EmptyText, "")
    ELSE ChunkStep(line, acc)

\* one iteration of "for line in response.iter_lines()"
LineStep(line, acc) ==
    IF line.raw = "blank" THEN Step("continue", acc, EmptyText, "")
    ELSE IF line.raw = "bytes" THEN Step("raise", acc, EmptyText, "exception")
    ELSE IF line.raw # "data" THEN Step("continue", acc, EmptyText, "")
    ELSE IF line.payload = "done" THEN Step("break", acc, EmptyText, "")
    ELSE IF line.payload = "badjson" THEN Step("continue", acc, EmptyText, "")
    ELSE ChunkStep(line, acc)

\* the for loop over the lines of a body, from the accumulator acc and the
\* echo out: how the loop is left ("continue": the lines are exhausted), the
\* accumulator and what was written to sys.stdout
RECURSIVE RunLines(_, _, _)
RunLines(lines, acc, out) ==
    IF lines = << >> THEN Step("continue", acc, out, "")
    ELSE LET step == LineStep(Head(lines), acc) IN
           IF step.ctl = "continue"
           THEN RunLines(Tail(lines), step.acc, out \o step.out)
           ELSE Step(step.ctl, step.acc, out \o step.out, step.why)

----------------------------------------------------------------------------
(* Inputs *)

\* what the user can type at the prompt
ExitInputs == { << "e","x","i","t" >>, << "Q","u","i","t" >> }
ModelInputs ==
    { << "m","o","d","e","l"," ","m","1" >>,
      << "M","O","D","E","L"," "," ","m","1"," " >>,
      << "m","o","d","e","l"," ","m","2" >> }
TextInputs == { << "h","i" >>, EmptyText }
InputLines == ExitInputs \cup ModelInputs \cup TextInputs

\* what can be piped to standard input
PipedInputs == { << "t","x","t" >>, << " ","t","x","t"," " >>, << " " >>, EmptyText }

\* status codes of the response
StatusCodes == { 200, 204, 400, 401, 404, 429, 500, 502, 503, 504 }

\* exceptions requests.post or response.iter_lines() can raise
TransportErrors == { "timeout", "connection", "request", "exception" }

----------------------------------------------------------------------------
(* The session *)

\* the value of request while no request has been issued
NoRequest == [model |-> DEFAULT_MODEL, messages |-> << >>]

\* the value of lastswitch while the last line typed was no model command
NoSwitch == [line |-> EmptyText, before |-> EmptyText, twice |-> FALSE]

Init ==
    /\ messages = InitialMessages
    /\ model = DEFAULT_MODEL
    /\ mode = "none"
    /\ pc = "main"
    /\ request = NoRequest
    /\ status = 0
    /\ body = "none"
    /\ seen = << >>
    /\ full_assistant_response = EmptyText
    /\ echo = EmptyText
    /\ ret = None
    /\ failure = ""
    /\ pre = InitialMessages
    /\ succ = 0
    /\ exitcode = -1
    /\ how = ""
    /\ lastswitch = NoSwitch
    /\ switched = EmptyText

\* the loop goes round, or ends: the iteration's request, response and
\* returned value are gone
ForgetTurn ==
    /\ request' = NoRequest
    /\ status' = 0
    /\ body' = "none"
    /\ seen' = << >>
    /\ full_assistant_response' = EmptyText
    /\ echo' = EmptyText
    /\ ret' = None
    /\ failure' = ""

\* the request issued with the model the object was constructed with
NewRequestDefaultModel(history) ==
    /\ request' = [model |-> DEFAULT_MODEL, messages |-> history]
    /\ status' = 0
    /\ body' = "none"
    /\ seen' = << >>
    /\ full_assistant_response' = EmptyText
    /\ echo' = EmptyText
    /\ ret' = None
    /\ failure' = ""

\* the state of a request that has just been issued
NewRequest(history) ==
    /\ request' = [model |-> model, messages |-> history]
    /\ status' = 0
    /\ body' = "none"
    /\ seen' = << >>
    /\ full_assistant_response' = EmptyText
    /\ echo' = EmptyText
    /\ ret' = None
    /\ failure' = ""

\* __main__ with a terminal on standard input
StartInteractive ==
    /\ UNCHANGED << lastswitch, switched >>
    /\ pc = "main"
    /\ mode' = "interactive"
    /\ pc' = "prompt"
    /\ UNCHANGED << messages, model, request, status, body, seen,
                    full_assistant_response, echo, ret, failure, pre, succ, exitcode, how >>

\* the list handle_piped_input sends
TempMessages(msgs, piped_content) ==
    SubSeq(msgs, 1, 1)
      \o << Message("user", SummarizeInstruction),
            Message("user", Strip(piped_content)) >>

\* the list built in place: temp_messages = self.messages
PipedMessagesAliased(msgs, piped_content) ==
    msgs \o << Message("user", SummarizeInstruction),
               Message("user", Strip(piped_content)) >>

\* self.messages once handle_piped_input has built its list: the slice
\* self.messages[:1] is a copy, the appends go to the copy
PipedMessages(msgs, piped_content) == msgs

\* __main__ with piped standard input: handle_piped_input up to requests.post,
\* or exit 1 when nothing was piped
StartPiped ==
    /\ UNCHANGED << lastswitch, switched >>
    /\ pc = "main"
    /\ \E piped_data \in PipedInputs :
         IF piped_data # EmptyText
         THEN /\ mode' = "piped"
              /\ pc' = "sending"
              /\ NewRequest(TempMessages(messages, piped_data))
              /\ messages' = PipedMessages(messages, piped_data)
              /\ UNCHANGED << exitcode, how >>
         ELSE /\ mode' = "piped"
              /\ pc' = "exited"
              /\ exitcode' = 1
              /\ how' = "nopipe"
              /\ UNCHANGED << messages, request, status, body, seen, full_assistant_response,
                              echo, ret, failure >>
    /\ UNCHANGED << model, pre, succ >>

\* the model name taken without strip()
NewModelNoStrip(user_message) == SliceFrom(user_message, 6)

\* the model name of a "model <name>" command
NewModel(user_message) == Strip(SliceFrom(user_message, 6))

IsExitCommand(user_message) ==
    Lower(user_message) \in { << "e","x","i","t" >>, << "q","u","i","t" >> }

IsModelCommand(user_message) ==
    StartsWith(Lower(user_message), << "m","o","d","e","l"," " >>)

\* input() returns exit or quit
Exit ==
    /\ lastswitch' = NoSwitch
    /\ switched' = EmptyText
    /\ pc = "prompt"
    /\ \E user_message \in InputLines :
         /\ IsExitCommand(user_message)
         /\ pc' = "exited"
         /\ exitcode' = 0
         /\ how' = "quit"
    /\ UNCHANGED << messages, model, mode, request, status, body, seen,
                    full_assistant_response, echo, ret, failure, pre, succ >>

\* input() returns "model <name>"
SwitchModel ==
    /\ pc = "prompt"
    /\ \E user_message \in InputLines :
         /\ ~IsExitCommand(user_message)
         /\ IsModelCommand(user_message)
         /\ model' = NewModel(user_message)
         /\ lastswitch' =
              IF lastswitch.line = user_message
              THEN [line |-> user_message, before |-> model, twice |-> TRUE]
              ELSE [line |-> user_message, before |-> EmptyText, twice |-> FALSE]
         /\ switched' = user_message
    /\ UNCHANGED << messages, mode, pc, request, status, body, seen,
                    full_assistant_response, echo, ret, failure, pre, succ, exitcode, how >>

\* input() returns anything else: the speculative append and the request
SubmitTurn ==
    /\ pc = "prompt"
    /\ succ < MaxTurns
    /\ \E user_message \in InputLines :
         /\ ~IsExitCommand(user_message)
         /\ ~IsModelCommand(user_message)
         /\ messages' = Append(messages, Message("user", user_message))
         /\ NewRequest(messages')
    /\ pre' = messages
    /\ pc' = "sending"
    /\ lastswitch' = NoSwitch
    /\ UNCHANGED << model, mode, succ, exitcode, how, switched >>

----------------------------------------------------------------------------
(* What the callers do with the value _send_message_to_ai returns *)

\* the reply appended with the role of the user
CommitAsUser(msgs, text) == Append(msgs, Message("user", text))

\* self.messages.append({"role": "assistant", ...})
Commit(msgs, text) == Append(msgs, Message("assistant", text))

\* the rollback left out
RollbackKeep(msgs) == msgs

\* the rollback as a reset of the history: self.messages = self.messages[:1]
RollbackToSystem(msgs) == SubSeq(msgs, 1, 1)

\* the rollback popping a user/assistant pair
RollbackPair(msgs) == SubSeq(msgs, 1, Len(msgs) - 2)

\* the guarded self.messages.pop()
Rollback(msgs) ==
    IF Len(msgs) > 1 /\ msgs[Len(msgs)].role = "user"
    THEN SubSeq(msgs, 1, Len(msgs) - 1)
    ELSE msgs

\* the loop body ending like handle_piped_input: a failed turn ends the process
ApplyOutcomeFatal(r) ==
    IF Truthy(r)
    THEN /\ messages' = Commit(messages, r.text)
         /\ succ' = succ + 1
         /\ pc' = "turn_end"
         /\ UNCHANGED << exitcode, how >>
    ELSE /\ messages' = Rollback(messages)
         /\ pc' = "exited"
         /\ exitcode' = 1
         /\ how' = "turn_failed"
         /\ UNCHANGED succ

\* interactive_chat: if ai_response_content: ... else: ..., the end of the
\* loop body
ApplyOutcome(r) ==
    /\ IF Truthy(r)
       THEN /\ messages' = Commit(messages, r.text)
            /\ succ' = succ + 1
       ELSE /\ messages' = Rollback(messages)
            /\ UNCHANGED succ
    /\ pc' = "turn_end"
    /\ UNCHANGED << exitcode, how >>

\* handle_piped_input: if ai_response_content: pass else: sys.exit(1)
PipedFinish(r) ==
    /\ pc' = "exited"
    /\ IF Truthy(r)
       THEN exitcode' = 0 /\ how' = "piped_ok"
       ELSE exitcode' = 1 /\ how' = "piped_failed"
    /\ UNCHANGED << messages, succ >>

\* _send_message_to_ai returns r (None for the reason why) to its caller
Return(r, why) ==
    /\ ret' = r
    /\ failure' = why
    /\ IF mode = "interactive" THEN ApplyOutcome(r) ELSE PipedFinish(r)

----------------------------------------------------------------------------
(* _send_message_to_ai *)

\* requests.post raises: one of the except clauses writes to stderr, returns None
PostFails ==
    /\ UNCHANGED << lastswitch, switched >>
    /\ pc = "sending"
    /\ \E e \in TransportErrors : Return(None, e)
    /\ UNCHANGED << model, mode, request, status, body, seen,
                    full_assistant_response, echo, pre >>

\* the dispatch as "if response.ok"
IsOk(code) == code < 400

\* is the body of a response with this status read as an event stream?
IsStreamed(code) == code = 200

\* requests.post returns a response: the dispatch on response.status_code
Respond ==
    /\ UNCHANGED << lastswitch, switched >>
    /\ pc = "sending"
    /\ \E code \in StatusCodes :
         /\ status' = code
         /\ IF IsStreamed(code)
            THEN /\ pc' = "streaming"
                 /\ body' = "open"
                 /\ UNCHANGED << ret, failure, messages, succ, exitcode, how >>
            ELSE /\ Return(None, "status")
                 /\ UNCHANGED body
    /\ UNCHANGED << model, mode, request, seen, full_assistant_response, echo,
                    pre >>

\* may the service send this line now?
MaySend(line) == Len(seen) < MaxLines \/ line \in { DoneLine, ErrorLine }

\* iter_lines() delivers a line: one iteration of the for loop
ReadLine ==
    /\ UNCHANGED << lastswitch, switched >>
    /\ pc = "streaming"
    /\ \E line \in (IF mode = "piped" THEN PipedStreamLines ELSE StreamLines) :
         /\ MaySend(line)
         /\ seen' = Append(seen, line)
         /\ LET step == LineStep(line, full_assistant_response) IN
              /\ full_assistant_response' = step.acc
              /\ echo' = echo \o step.out
              /\ CASE step.ctl = "continue" ->
                        UNCHANGED << pc, ret, failure, messages, succ, exitcode, how >>
                   [] step.ctl = "break" -> Return(Str(step.acc), "")
                   [] OTHER -> Return(None, step.why)
    /\ UNCHANGED << model, mode, request, status, body, pre >>

\* iter_lines() is exhausted, taken for a failure
StreamEndFails ==
    /\ UNCHANGED << lastswitch, switched >>
    /\ pc = "streaming"
    /\ body' = "eof"
    /\ Return(None, "request")
    /\ UNCHANGED << model, mode, request, status, seen,
                    full_assistant_response, echo, pre >>

\* iter_lines() is exhausted: return full_assistant_response
StreamEnd ==
    /\ UNCHANGED << lastswitch, switched >>
    /\ pc = "streaming"
    /\ body' = "eof"
    /\ Return(Str(full_assistant_response), "")
    /\ UNCHANGED << model, mode, request, status, seen,
                    full_assistant_response, echo, pre >>

\* iter_lines() raises ChunkedEncodingError (the connection breaks while the
\* body is read): except RequestException
StreamFails ==
    /\ UNCHANGED << lastswitch, switched >>
    /\ pc = "streaming"
    /\ body' = "broken"
    /\ Return(None, "request")
    /\ UNCHANGED << model, mode, request, status, seen,
                    full_assistant_response, echo, pre >>

----------------------------------------------------------------------------
(* The loop of interactive_chat *)

\* while True: the loop goes round to input()
NextPrompt ==
    /\ UNCHANGED << lastswitch, switched >>
    /\ pc = "turn_end"
    /\ pc' = "prompt"
    /\ pre' = messages
    /\ ForgetTurn
    /\ UNCHANGED << messages, model, mode, succ, exitcode, how >>

\* KeyboardInterrupt in the try block of the loop: print Goodbye, break
Interrupt ==
    /\ lastswitch' = NoSwitch
    /\ switched' = EmptyText
    /\ mode = "interactive"
    /\ pc \in { "prompt", "sending", "streaming", "turn_end" }
    /\ how' = IF pc \in { "sending", "streaming" }
              THEN "interrupt_turn" ELSE "interrupt_prompt"
    /\ pc' = "exited"
    /\ exitcode' = 0
    /\ ForgetTurn
    /\ UNCHANGED << messages, model, mode, pre, succ >>

\* input() raises EOFError: except Exception prints it, break
InputEOF ==
    /\ lastswitch' = NoSwitch
    /\ switched' = EmptyText
    /\ mode = "interactive"
    /\ pc = "prompt"
    /\ how' = "eof"
    /\ pc' = "exited"
    /\ exitcode' = 0
    /\ UNCHANGED << messages, model, mode, request, status, body, seen,
                    full_assistant_response, echo, ret, failure, pre, succ >>

Next ==
    \/ StartInteractive
    \/ StartPiped
    \/ Exit
    \/ SwitchModel
    \/ SubmitTurn
    \/ PostFails
    \/ Respond
    \/ ReadLine
    \/ StreamEnd
    \/ StreamFails
    \/ NextPrompt
    \/ Interrupt
    \/ InputEOF

Spec == Init /\ [][Next]_vars

\* The program is one sequential thread. requests.post returns or raises
\* (timeout=60); iter_lines() over a finite body delivers a line, ends or
\* raises; when the loop body has ended the loop goes round to input(). What
\* the user does (typing a line, Ctrl-C, closing standard input) is not forced.
Fairness ==
    /\ WF_vars(PostFails \/ Respond)
    /\ WF_vars(ReadLine \/ StreamEnd \/ StreamFails)
    /\ WF_vars(NextPrompt)

LiveSpec == Spec /\ Fairness

----------------------------------------------------------------------------
(* Vocabulary of the properties *)

SystemMessage == Message("system", SystemContent)

\* the content frames
ContentLines == { ContentLine(t) : t \in Fragments }

\* the frames that carry a top-level error object
HasError(line) == line.raw = "data" /\ line.payload = "json" /\ line.error # "absent"

\* f1 + f2 + ... + fn of the content frames among lines, in arrival order
RECURSIVE Joined(_)
Joined(lines) ==
    IF lines = << >> THEN EmptyText
    ELSE (IF Head(lines) \in ContentLines THEN Head(lines).text ELSE EmptyText)
           \o Joined(Tail(lines))

Last(q) == q[Len(q)]

\* an interactive turn has ended and its outcome has been applied
TurnEnded == mode = "interactive" /\ pc = "turn_end"

\* the turn that ended failed: _send_message_to_ai gave nothing usable
TurnFailed == TurnEnded /\ ~Truthy(ret)

\* the transcript of a turn that committed reply text
Committed(text) ==
    messages = request.messages \o << Message("assistant", text) >>

\* the body of the 200 response was read to its end: no [DONE], no exception
ReadToEnd == status = 200 /\ body = "eof"

----------------------------------------------------------------------------
(* C1 *)

\* C1: whenever the interactive session is at the prompt (the loop body has
\* ended or input() is waiting), after any sequence of successful turns,
\* failed turns and model switches, the transcript has 1 + 2 * (number of
\* turns that succeeded) messages.
C1_TranscriptLength ==
    (mode = "interactive" /\ pc \in { "prompt", "turn_end" })
        => Len(messages) = 1 + 2 * succ

\* a failed turn, after a successful one and a model switch
C1_Witness ==
    /\ TurnFailed
    /\ succ = 1
    /\ Len(messages) = 3
    /\ model = << "m","2" >>

----------------------------------------------------------------------------
(* C2 *)

\* the reasons for which _send_message_to_ai returns nothing usable: a non-200
\* status, the exceptions of requests.post and of iter_lines(), an exception
\* while a line is processed, an error frame, and "" for a 200 response that
\* produced an empty text
FailureKinds ==
    { "status", "timeout", "connection", "request", "exception", "servererror", "" }

\* C2: after an interactive turn that failed, for whatever reason, the
\* transcript is the transcript before the turn: the same messages in the same
\* order.
C2_RollbackExact ==
    TurnFailed => (failure \in FailureKinds /\ messages = pre)

\* a turn refused with HTTP 429 after a committed turn
C2_Witness ==
    /\ TurnFailed
    /\ failure = "status"
    /\ status = 429
    /\ Len(pre) = 3
    /\ messages = pre

----------------------------------------------------------------------------
(* C3 *)

\* C3: when the stream of a 200 response has delivered a data frame that
\* carries a top-level error object, after zero or more content fragments, the
\* turn ends as a failure: no assistant message is appended and the
\* speculative user message is removed.
C3_ErrorFrameFails ==
    (TurnEnded /\ \E i \in 1..Len(seen) : HasError(seen[i]))
        => (~Truthy(ret) /\ messages = pre)

----------------------------------------------------------------------------
(* C4 *)

\* C4: when the user interrupts an interactive turn that is in flight, the
\* transcript is back in its state before the turn.
C4_InterruptRollsBack ==
    (pc = "exited" /\ how = "interrupt_turn") => messages = pre

----------------------------------------------------------------------------
(* C5 *)

\* the response body is content frames f1..fn, n >= 1, then [DONE]
ContentThenDone ==
    /\ status = 200
    /\ Len(seen) >= 2
    /\ Last(seen) = DoneLine
    /\ \A i \in 1..(Len(seen) - 1) : seen[i] \in ContentLines

\* C5: an interactive turn whose 200 response is content frames f1..fn (n >= 1,
\* not all empty) followed by [DONE] succeeds, the reply is f1 + ... + fn in
\* arrival order, and that text is the assistant message committed (and what
\* was echoed).
C5_AssembledInOrder ==
    (TurnEnded /\ ContentThenDone /\ Joined(seen) # EmptyText)
        => /\ ret = Str(Joined(seen))
           /\ echo = Joined(seen)
           /\ Committed(Joined(seen))

\* the frames A, B, [DONE] committed as AB
C5_Witness ==
    /\ TurnEnded
    /\ seen = << ContentLine(<< "A" >>), ContentLine(<< "B" >>), DoneLine >>
    /\ Last(messages) = Message("assistant", << "A", "B" >>)

----------------------------------------------------------------------------
(* C6 *)

\* no frame that was read carries an error object
NoErrorFrame == \A i \in 1..Len(seen) : ~HasError(seen[i])

----------------------------------------------------------------------------
(* C7 *)

\* C7: for a response whose status is not 200 the request fails and the body
\* is never read as an event stream: no line is decoded, nothing is echoed or
\* accumulated, and no assistant message is committed.
C7_Non200NotStreamed ==
    (status # 0 /\ status # 200)
        => /\ seen = << >>
           /\ echo = EmptyText
           /\ full_assistant_response = EmptyText
           /\ ret = None
           /\ failure = "status"
           /\ pc # "streaming"
           /\ (mode = "interactive" => messages = pre)

\* a 401 that ends the turn after a committed turn
C7_Witness ==
    /\ TurnFailed
    /\ status = 401
    /\ Len(messages) = 3

----------------------------------------------------------------------------
(* C8 *)

\* C8: in piped mode the persistent transcript stays the one-element list
\* holding the system message, whatever the outcome, and the list sent is a
\* separate list of three messages: the system message, the fixed instruction
\* and the piped content.
C8_PipedLeavesTranscript ==
    mode = "piped"
        => /\ messages = InitialMessages
           /\ (how # "nopipe"
                 => /\ Len(request.messages) = 3
                    /\ request.messages[1] = SystemMessage
                    /\ request.messages[2] = Message("user", SummarizeInstruction)
                    /\ request.messages[3].role = "user"
                    /\ request.messages[3].content \in { << "t","x","t" >>, EmptyText })

\* a piped summarization that succeeded with the reply AB
C8_Witness ==
    /\ mode = "piped"
    /\ pc = "exited"
    /\ how = "piped_ok"
    /\ ret = Str(<< "A", "B" >>)

----------------------------------------------------------------------------
(* C9 *)

\* the model name a model command was typed with: the command is the word
\* "model" in any case, a space, and the name with blanks around it
Pads == { EmptyText, << " " >> }
ModelWords == { << "m","o","d","e","l"," " >>, << "M","O","D","E","L"," " >> }
ModelNames == { << "m","1" >>, << "m","2" >> }
NameTyped(line) ==
    CHOOSE n \in ModelNames :
        \E w \in ModelWords, l \in Pads, r \in Pads : line = w \o l \o n \o r

\* C9: a model command sets the current model to the name typed and touches
\* nothing else (the transcript is unchanged, no request is issued, the
\* session stays at the prompt); typed twice in a row, the second leaves the
\* state the first one left.
C9_SwitchModelIdempotent ==
    lastswitch # NoSwitch
        => /\ model = NameTyped(lastswitch.line)
           /\ (lastswitch.twice => model = lastswitch.before)
           /\ messages = pre
           /\ request = NoRequest
           /\ status = 0 /\ seen = << >> /\ ret = None
           /\ mode = "interactive"
           /\ pc = "prompt"

\* "MODEL  m1 " typed twice in a row after a committed turn
C9_Witness ==
    /\ pc = "prompt"
    /\ lastswitch.twice
    /\ lastswitch.line = << "M","O","D","E","L"," "," ","m","1"," " >>
    /\ model = << "m","1" >>
    /\ Len(messages) = 3

----------------------------------------------------------------------------
(* C10 *)

\* C10: in every state index 0 of the transcript holds the system message of
\* __init__, and no other message has the role system.
C10_SystemMessageFirst ==
    /\ Len(messages) >= 1
    /\ messages[1] = SystemMessage
    /\ \A i \in 2..Len(messages) : messages[i].role \in { "user", "assistant" }

\* a first turn that failed and was rolled back to the system message alone
C10_Witness ==
    /\ TurnFailed
    /\ messages = << SystemMessage >>
    /\ request.messages # messages

----------------------------------------------------------------------------
(* C11 *)

\* the role position i of the transcript holds when the roles alternate after
\* the system message: user at 2, assistant at 3, user at 4, ...
RoleAt(i) == IF i % 2 = 0 THEN "user" ELSE "assistant"

\* C11: whenever no turn is in flight (the session is at the prompt after any
\* sequence of turns), no two consecutive messages of the transcript have the
\* same role: after the system message the roles alternate user, assistant,
\* user, assistant, ..., so the transcript ends with an assistant reply (or is
\* the system message alone) and holds no orphaned user message.
C11_RolesAlternate ==
    (mode = "interactive" /\ pc \in { "prompt", "turn_end" })
        => /\ \A i \in 2..Len(messages) : messages[i].role = RoleAt(i)
           /\ \A i \in 1..(Len(messages) - 1) : messages[i].role # messages[i + 1].role
           /\ Last(messages).role # "user"

\* the second committed turn, after a model switch: four messages follow the
\* system message
C11_Witness ==
    /\ TurnEnded
    /\ Truthy(ret)
    /\ succ = 2
    /\ Len(messages) = 5
    /\ model # DEFAULT_MODEL

----------------------------------------------------------------------------
(* C12 *)

\* C12: every user message and every assistant message that is in the
\* transcript after a committed turn has non-empty content, for every input
\* line the user can type (the empty line included) and every reply the
\* service can stream; only the system message may have empty content.
C12_ContentNonEmpty ==
    (mode = "interactive" /\ pc \in { "prompt", "turn_end" })
        => \A i \in 2..Len(messages) : messages[i].content # EmptyText

----------------------------------------------------------------------------
(* C13 *)

\* the ignorable lines: blank lines, lines without the data prefix, data
\* lines whose payload fails JSON parsing
Ignorable(line) == line \in { BlankLine, NoDataLine, BadJsonLine }

\* the lines read, the ignorable ones taken out
WithoutIgnorable(lines) == SelectSeq(lines, LAMBDA line : ~Ignorable(line))

\* the request on a 200 response is over: the function has returned
RequestOver == status = 200 /\ pc \in { "turn_end", "exited" }

\* C13: ignorable lines do not affect the outcome: for every line sequence of
\* a 200 response, the assembled text, the echo and the outcome (the value
\* returned, the reason of a failure, commit or rollback) are those of the
\* sequence with the blank lines, the lines without the data prefix and the
\* data lines with an unparsable payload taken out, and the lines after an
\* ignorable line are still processed.
C13_IgnorableLinesIgnored ==
    status = 200 =>
        LET run == RunLines(WithoutIgnorable(seen), EmptyText, EmptyText) IN
          /\ full_assistant_response = run.acc
          /\ echo = run.out
          /\ (pc = "streaming" => run.ctl = "continue")
          /\ (RequestOver /\ body = "open"
                => /\ run.ctl # "continue"
                   /\ ret = (IF run.ctl = "break" THEN Str(run.acc) ELSE None)
                   /\ failure = run.why)
          /\ (RequestOver /\ body = "eof"
                => run.ctl = "continue" /\ ret = Str(run.acc))
          /\ (RequestOver /\ body = "broken"
                => run.ctl = "continue" /\ ret = None)
          /\ (TurnEnded
                => messages = (IF Truthy(ret) THEN Commit(request.messages, run.acc)
                                             ELSE pre))

\* an unparsable payload, then the fragment A, then [DONE]: the reply is A
C13_Witness ==
    /\ status = 200
    /\ seen = << BadJsonLine, ContentLine(<< "A" >>), DoneLine >>
    /\ WithoutIgnorable(seen) = << ContentLine(<< "A" >>), DoneLine >>
    /\ ret = Str(<< "A" >>)
    /\ how = "piped_ok"

----------------------------------------------------------------------------
(* C14 *)

\* the frames that parse to a JSON object with a top-level error field
ErrorObjectFrame(line) ==
    line.raw = "data" /\ line.payload = "json" /\ line.ctype = "object"
      /\ line.error # "absent"

\* C14: a data frame of a 200 response that parses to a JSON object with a
\* top-level error field, whatever else the object carries (a non-empty
\* choices array included), ends the sequence: it is the last line processed,
\* nothing of it or after it is echoed or accumulated, and the request fails.
C14_ErrorFrameTerminates ==
    \A i \in 1..Len(seen) :
        ErrorObjectFrame(seen[i])
            => /\ i = Len(seen)
               /\ pc # "streaming"
               /\ ret = None
               /\ LET before == RunLines(SubSeq(seen, 1, i - 1), EmptyText, EmptyText) IN
                    full_assistant_response = before.acc /\ echo = before.out

----------------------------------------------------------------------------
(* C15 *)

\* the 200 response came to its end, by [DONE] or by the end of the body, with
\* nothing accumulated
EndedEmpty ==
    /\ status = 200
    /\ (seen # << >> /\ Last(seen) = DoneLine) \/ body = "eof"
    /\ full_assistant_response = EmptyText

\* C15: a 200 response that produces an empty accumulated text, whether it is
\* ended by [DONE] or by the connection closing, is a failure and never a
\* success: in an interactive turn no assistant message is committed and the
\* speculative user message is rolled back; the piped request exits with 1.
C15_EmptyReplyFails ==
    /\ (TurnEnded /\ EndedEmpty)
         => /\ messages = pre
            /\ Last(messages).role # "user"
            /\ succ * 2 + 1 = Len(messages)
    /\ (mode = "piped" /\ pc = "exited" /\ EndedEmpty)
         => exitcode = 1 /\ how = "piped_failed"

\* a second turn answered by an empty fragment and the end of the body
C15_Witness ==
    /\ TurnEnded
    /\ EndedEmpty
    /\ body = "eof"
    /\ seen = << ContentLine(EmptyText) >>
    /\ Len(pre) = 3

----------------------------------------------------------------------------
(* C16 *)

\* a data line whose trimmed payload is [DONE]
IsDone(line) == line.raw = "data" /\ line.payload = "done"

\* C16: the [DONE] frame is terminal: once it has been read it is the last
\* line of the response that is read, the request is over, and its result is
\* the text assembled from the lines before it, which is also all that was
\* echoed: no later content frame or error frame changes the text, is echoed
\* or turns the outcome into a failure.
C16_DoneTerminal ==
    \A i \in 1..Len(seen) :
        IsDone(seen[i])
            => /\ i = Len(seen)
               /\ pc # "streaming"
               /\ LET before == RunLines(SubSeq(seen, 1, i - 1), EmptyText, EmptyText) IN
                    /\ before.ctl = "continue"
                    /\ ret = Str(before.acc)
                    /\ echo = before.out
                    /\ full_assistant_response = before.acc
               /\ failure = ""
               /\ (TurnEnded /\ ret.text # EmptyText => Committed(ret.text))

\* the second turn of a session answered by B and [DONE]
C16_Witness ==
    /\ TurnEnded
    /\ seen = << ContentLine(<< "B" >>), DoneLine >>
    /\ ret = Str(<< "B" >>)
    /\ Len(messages) = 5

----------------------------------------------------------------------------
(* C17 *)

\* C17: console output and committed transcript differ only when the turn
\* ended on a server error frame: in every other interactive turn during
\* which a non-empty fragment was echoed, the text echoed is the content of
\* the assistant message the turn committed.
C17_EchoIsCommitted ==
    (TurnEnded /\ echo # EmptyText /\ failure # "servererror")
        => /\ Len(messages) = Len(pre) + 2
           /\ Last(messages) = Message("assistant", echo)

----------------------------------------------------------------------------
(* C18 *)

\* C18: the request of an interactive turn is issued after the speculative
\* append and carries the full transcript and the current model: the list
\* sent is the pre-turn transcript followed by the new user message (the
\* committed turns plus the new input, no rolled-back message), and the model
\* sent is the one of the most recent model command, or the default if none
\* was typed.
C18_RequestCarriesTranscript ==
    (mode = "interactive" /\ pc \in { "sending", "streaming", "turn_end" })
        => /\ Len(request.messages) = Len(pre) + 1
           /\ SubSeq(request.messages, 1, Len(pre)) = pre
           /\ Last(request.messages).role = "user"
           /\ Last(request.messages).content \in TextInputs
           /\ (pc # "turn_end" => request.messages = messages)
           /\ \A i \in 2..Len(pre) : pre[i].role = RoleAt(i)
           /\ Len(pre) % 2 = 1
           /\ request.model = model
           /\ request.model =
                 (IF switched = EmptyText THEN DEFAULT_MODEL ELSE NameTyped(switched))

\* the request of a second turn, sent after "MODEL  m1 " was typed
C18_Witness ==
    /\ mode = "interactive"
    /\ pc = "streaming"
    /\ switched = << "M","O","D","E","L"," "," ","m","1"," " >>
    /\ request.model = << "m","1" >>
    /\ Len(request.messages) = 4

----------------------------------------------------------------------------
(* C19 *)

\* C19: no line of a 200 response other than a server error frame makes the
\* request fail: whatever lines were read (valid JSON of an unexpected
\* structure included: a value that is not an object, a null delta, a null
\* content), a request whose body was read without an error frame and without
\* a transport failure returns the text of its content frames, as if the
\* other lines had not been sent.
C19_LinesNeverFail ==
    (RequestOver /\ body # "broken"
       /\ \A i \in 1..Len(seen) : ~ErrorObjectFrame(seen[i]))
        => /\ ret = Str(Joined(seen))
           /\ failure = ""

----------------------------------------------------------------------------
(* C20 *)

\* the request of an interactive turn is in flight
TurnInFlight == mode = "interactive" /\ pc \in { "sending", "streaming" }

\* the user ended the session with Ctrl-C
Interrupted == pc = "exited" /\ how \in { "interrupt_turn", "interrupt_prompt" }

\* input() is waiting for the next line
AtPrompt == mode = "interactive" /\ pc = "prompt"

====
